---- MODULE Spec2Model ----
(***************************************************************************)
(* Model of the two career-site scrapers of main.py: ignitis_scraper (all  *)
(* fields read from the anchor text of the listing page) and epsog_scraper *)
(* (one detail page fetched per listing link).                             *)
(*                                                                         *)
(* A Python str is a sequence of symbols.  A symbol is one character,      *)
(* except "Atlyginimas" and the site prefixes, which stand for the literal *)
(* substrings the code tests for ("Euro" is the euro sign; names are       *)
(* written without diacritics).  Python's None is the value None below, a  *)
(* sequence holding a symbol that occurs in no string.                     *)
(***************************************************************************)
EXTENDS Integers, Sequences, FiniteSets, TLC

\* ------------------------------------------------------------------ bounds
MaxAnchors == 3        \* anchors in a listing document
MaxLen == 6            \* symbols in the anchor text given to the segmenter

\* ----------------------------------------------------------------- strings
None == <<"<None>">>

Whitespace == {" ", "\n"}
LowerChars == {"a"}
UpperChars == {"B", "Atlyginimas"}

\* the least element of a non-empty set of indices
Min(S) == CHOOSE i \in S : \A j \in S : i <= j

\* bool(v) of a str-or-None value
Truthy(v) == v # None /\ v # <<>>

\* len() of one symbol in characters
SymLen(c) == IF c = "Atlyginimas" THEN 11 ELSE 1

RECURSIVE StrLen(_)
StrLen(s) == IF s = <<>> THEN 0 ELSE SymLen(Head(s)) + StrLen(Tail(s))

RECURSIVE LStrip(_)
LStrip(s) ==
    IF s = <<>> THEN <<>>
    ELSE IF Head(s) \in Whitespace THEN LStrip(Tail(s)) ELSE s

RECURSIVE RStrip(_)
RStrip(s) ==
    IF s = <<>> THEN <<>>
    ELSE IF s[Len(s)] \in Whitespace THEN RStrip(SubSeq(s, 1, Len(s) - 1)) ELSE s

\* str.strip()
Strip(s) == RStrip(LStrip(s))

\* str.split(sep): every piece between separators, empty pieces included
RECURSIVE SplitOn(_, _)
SplitOn(s, sep) ==
    LET at == {i \in 1..Len(s) : s[i] = sep}
        k == Min(at)
    IN  IF at = {} THEN <<s>>
        ELSE <<SubSeq(s, 1, k - 1)>> \o SplitOn(SubSeq(s, k + 1, Len(s)), sep)

\* str.split(): pieces between runs of whitespace, no empty piece
RECURSIVE SplitWords(_)
SplitWords(s) ==
    LET t == LStrip(s)
        at == {i \in 1..Len(t) : t[i] \in Whitespace}
        k == Min(at)
    IN  IF t = <<>> THEN <<>>
        ELSE IF at = {} THEN <<t>>
        ELSE <<SubSeq(t, 1, k - 1)>> \o SplitWords(SubSeq(t, k + 1, Len(t)))

\* sep.join(pieces)
RECURSIVE Join(_, _)
Join(pieces, sep) ==
    IF pieces = <<>> THEN <<>>
    ELSE IF Len(pieces) = 1 THEN pieces[1]
    ELSE pieces[1] \o sep \o Join(Tail(pieces), sep)

\* str.islower(): at least one cased character and no uppercase one
IsLower(s) ==
    /\ \E i \in 1..Len(s) : s[i] \in LowerChars
    /\ \A i \in 1..Len(s) : s[i] \notin UpperChars

\* the symbols that occur in s
SymbolsOf(s) == {s[i] : i \in 1..Len(s)}

\* sub in s, for a one-symbol sub
Contains(s, sym) == sym \in SymbolsOf(s)

\* s.replace(sym, '')
RemoveSym(s, sym) == SelectSeq(s, LAMBDA c : c # sym)

\* Tag.get_text(separator, strip=True) over the text nodes of an element:
\* each node stripped, empty ones dropped, the rest joined
RECURSIVE StripAll(_)
StripAll(pieces) ==
    IF pieces = <<>> THEN <<>> ELSE <<Strip(Head(pieces))>> \o StripAll(Tail(pieces))

NonEmpty(pieces) == SelectSeq(pieces, LAMBDA p : p # <<>>)

GetText(nodes, sep) == Join(NonEmpty(StripAll(nodes)), sep)

\* --------------------------------------------- ignitis: anchor-text segmenter
\* parts = [part.strip() for part in link_text.split('|') if part.strip()]
PartsOf(nodes) == NonEmpty(StripAll(SplitOn(GetText(nodes, <<"|">>), "|")))

\* variant: the length test lets a five-character word through
IsCompanyTagLoose(word) == IsLower(word) /\ StrLen(word) <= 5

\* words[0].islower() and len(words[0]) <= 4
TagMaxLen == 4
IsCompanyTag(word) == IsLower(word) /\ StrLen(word) <= TagMaxLen

CompanyTagOf(parts) ==
    IF Len(parts) >= 1 /\ SplitWords(parts[1]) # <<>>
    THEN LET words == SplitWords(parts[1])
         IN  IF IsCompanyTag(words[1]) THEN words[1] ELSE None
    ELSE None

TitleOf(parts) ==
    IF Len(parts) >= 1 /\ SplitWords(parts[1]) # <<>>
    THEN LET words == SplitWords(parts[1])
         IN  IF IsCompanyTag(words[1]) THEN Join(Tail(words), <<" ">>) ELSE parts[1]
    ELSE None

\* first part of parts[3:] holding 'Atlyginimas' or the euro sign
RECURSIVE SalaryScan(_)
SalaryScan(rest) ==
    IF rest = <<>> THEN None
    ELSE IF Contains(Head(rest), "Atlyginimas") \/ Contains(Head(rest), "Euro")
         THEN Strip(RemoveSym(Head(rest), "Atlyginimas"))
         ELSE SalaryScan(Tail(rest))

SalaryOf(parts) == SalaryScan(SubSeq(parts, 4, Len(parts)))

\* job_data of one link of the listing page
IgnitisJobData(link) ==
    LET parts == PartsOf(link.nodes) IN
    [url         |-> Strip(link.href),
     company_tag |-> CompanyTagOf(parts),
     title       |-> TitleOf(parts),
     location    |-> IF Len(parts) > 1 THEN parts[2] ELSE None,
     work_type   |-> IF Len(parts) > 2 THEN parts[3] ELSE None,
     salary      |-> SalaryOf(parts)]

\* ------------------------------------------------------ listing discovery
IgnitisPrefix == "https://ignitisgrupe.lt/darbo-skelbimai/"
EpsogPrefix == "https://jobs.smartrecruiters.com/EPSOG/"

\* the symbols in which the substring '/darbo-skelbimai/' resp. '/EPSOG/' occurs
IgnitisPathSyms == {IgnitisPrefix, "/darbo-skelbimai/"}
EpsogPathSyms == {EpsogPrefix, "/EPSOG/"}

StartsWith(s, sym) == s # <<>> /\ s[1] = sym

\* href=lambda x: x and '/darbo-skelbimai/' in x and x.startswith(prefix)
HrefMatches(x, pathSyms, prefix) ==
    /\ Truthy(x)
    /\ \E i \in 1..Len(x) : x[i] \in pathSyms
    /\ StartsWith(x, prefix)

\* soup.find_all('a', href=...): the matching anchors, in document order
FindJobLinks(doc, pathSyms, prefix) ==
    SelectSeq(doc, LAMBDA a : HrefMatches(a.href, pathSyms, prefix))

\* ------------------------------------------------- ignitis: record assembly
\* if job_data.get('title') and job_data.get('url')
IgnitisAccepted(job) == Truthy(job.title) /\ Truthy(job.url)

RECURSIVE IgnitisJobs(_)
IgnitisJobs(links) ==
    IF links = <<>> THEN <<>>
    ELSE LET job == IgnitisJobData(Head(links))
         IN  (IF IgnitisAccepted(job) THEN <<job>> ELSE <<>>) \o IgnitisJobs(Tail(links))

\* variant: the seen set is never consulted
JobSeenNever(job, seen_urls) == FALSE

\* job['url'] in seen_urls
JobSeen(job, seen_urls) == job.url \in seen_urls

\* the seen_urls loop over jobs
RECURSIVE UniqueJobsLoop(_, _, _)
UniqueJobsLoop(jobs, seen_urls, unique_jobs) ==
    IF jobs = <<>> THEN unique_jobs
    ELSE IF ~JobSeen(Head(jobs), seen_urls)
         THEN UniqueJobsLoop(Tail(jobs), seen_urls \cup {Head(jobs).url},
                             Append(unique_jobs, Head(jobs)))
         ELSE UniqueJobsLoop(Tail(jobs), seen_urls, unique_jobs)

UniqueJobs(jobs) == UniqueJobsLoop(jobs, {}, <<>>)

\* ------------------------------------------------ epsog: candidate discovery
\* variant: the seen set is never consulted
UrlSeenNever(job_url, seen_urls) == FALSE

\* job_url in seen_urls
UrlSeen(job_url, seen_urls) == job_url \in seen_urls

\* the seen_urls loop over job_links
RECURSIVE UniqueUrlsLoop(_, _, _)
UniqueUrlsLoop(links, seen_urls, unique_urls) ==
    IF links = <<>> THEN unique_urls
    ELSE LET job_url == Strip(Head(links).href) IN
         IF Truthy(job_url) /\ ~UrlSeen(job_url, seen_urls)
         THEN UniqueUrlsLoop(Tail(links), seen_urls \cup {job_url},
                             Append(unique_urls, job_url))
         ELSE UniqueUrlsLoop(Tail(links), seen_urls, unique_urls)

UniqueUrls(links) == UniqueUrlsLoop(links, {}, <<>>)

\* ------------------------------------------------ epsog: detail-page fields
\* A detail page, as the queries of the code see it:
\*   h1s      the h1 elements in document order, [job_title, text]
\*            (job_title: the element carries class 'job-title')
\*   text     job_soup.get_text(), a sequence of symbols
\*   sections heading -> length of the text of the element that follows the
\*            heading's parent (or -1 when find(string=heading) or find_next()
\*            gives nothing); description text is kept as its length only

\* job_soup.find('h1', class_='job-title'), then the first h1 with text
TitleOfPage(h1s) ==
    LET marked == {i \in 1..Len(h1s) : h1s[i].job_title}
        with_text == {i \in 1..Len(h1s) : Strip(h1s[i].text) # <<>>}
    IN  IF marked # {} THEN Strip(h1s[Min(marked)].text)
        ELSE IF with_text # {} THEN Strip(h1s[Min(with_text)].text)
        ELSE None

\* leftmost symbol of text that lies in a set of alternatives
FirstOf(text, alternatives) ==
    LET at == {i \in 1..Len(text) : text[i] \in alternatives}
    IN  IF at # {} THEN <<text[Min(at)]>> ELSE None

WorkTypeKeywords == {"Visa darbo diena", "Dalinis darbo laikas", "Full-time", "Part-time"}

\* re.search(r'(Visa darbo diena|Dalinis darbo laikas|Full-time|Part-time)', page_text)
WorkTypeOf(text) == FirstOf(text, WorkTypeKeywords)

\* first index >= i of text that is not whitespace (Len(text) + 1 if none)
RECURSIVE SkipWs(_, _)
SkipWs(text, i) ==
    IF i > Len(text) THEN i
    ELSE IF text[i] \in Whitespace THEN SkipWs(text, i + 1) ELSE i

\* the lazy capture ends at k: a terminator, the end of the text, or more
\* whitespace followed by one of these
RECURSIVE CaptureEnds(_, _, _)
CaptureEnds(text, k, terminators) ==
    \/ k > Len(text)
    \/ text[k] \in terminators
    \/ text[k] \in Whitespace /\ CaptureEnds(text, k + 1, terminators)

\* label \s* (phrase) (?:terminator|$) matched at the label at index i
LabelledAt(text, i, labels, phrases, terminators) ==
    /\ text[i] \in labels
    /\ LET j == SkipWs(text, i + 1)
       IN  j <= Len(text) /\ text[j] \in phrases /\ CaptureEnds(text, j + 1, terminators)

\* re.search of a labelled pattern: the phrase of the leftmost match, stripped
LabelledMatch(text, labels, phrases, terminators) ==
    LET at == {i \in 1..Len(text) : LabelledAt(text, i, labels, phrases, terminators)}
    IN  IF at # {} THEN <<text[SkipWs(text, Min(at) + 1)]>> ELSE None

\* phrases [A-Z...][a-z...\s]+ (Lithuanian letters allowed) and [A-Za-z\s]+
LithuanianPhrases == {"Inzinerija", "Engineering"}
AsciiPhrases == {"Engineering", "IT"}

\* 'Darbo sritis/Job family:' first, the looser 'Job family:' pattern second
DepartmentOf(text) ==
    LET first == LabelledMatch(text, {"Darbo sritis/Job family:"},
                               LithuanianPhrases, {"Bendroves"})
    IN  IF first # None THEN first
        ELSE LabelledMatch(text, {"Darbo sritis/Job family:", "Job family:"},
                           AsciiPhrases, {"\n", "Bendroves"})

lithuanian_cities ==
    <<"Vilnius", "Kaunas", "Klaipeda", "Siauliai", "Panevezys", "Alytus",
      "Marijampole", "Mazeikiai", "Jonava", "Utena", "Kedainiai", "Telsiai",
      "Taurage", "Ukmerge", "Visaginas", "Plunge", "Kretinga", "Palanga",
      "Silute", "Radviliskis", "Rokiskis", "Birzai", "Gargzdai", "Kupiskis",
      "Elektrenai", "Jurbarkas", "Garliava", "Vilkaviskis", "Raseiniai",
      "Anyksciai", "Lentvaris", "Grigiskes", "Prienai", "Joniskis", "Kelme",
      "Varena", "Kaisiadorys", "Pasvalys", "Kursenai", "Moletai", "Naujoji Akmene",
      "Sakiai", "Skuodas", "Zarasai", "Sirvintos", "Pakruojis", "Ignalina">>

\* for city in lithuanian_cities: if city in page_text: ...; break
CityInText(text) ==
    LET symbols == SymbolsOf(text)
        found == {c \in 1..Len(lithuanian_cities) : lithuanian_cities[c] \in symbols}
    IN  IF found # {} THEN <<lithuanian_cities[Min(found)]>> ELSE None

\* str.lower(), symbol by symbol
LowerSym(c) ==
    CASE c = "-Vilniuje" -> "-vilniuje"
      [] c = "-Alytu" -> "-alytu"
      [] c = "Remote" -> "remote"
      [] c = "Nuotoliniu" -> "nuotoliniu"
      [] c = "Atlygis" -> "atlygis"
      [] c = EpsogPrefix -> "https://jobs.smartrecruiters.com/epsog/"
      [] OTHER -> c

Lower(s) == [i \in 1..Len(s) |-> LowerSym(s[i])]

\* the alternatives of the url pattern -(vilniuje|kaune|...), each with its dash
UrlCityForms ==
    {"-vilniuje", "-kaune", "-klaipedoje", "-siauliuose", "-panevezyje", "-alytu",
     "-marijampoleje", "-mazeikiuose", "-jonavoje", "-utenoje", "-kedainiuose",
     "-telsiuose", "-taurageje", "-ukmerge", "-visagine", "-plungeje", "-kretingoje",
     "-palangoje", "-siluteje", "-radviliskyje", "-rokiskyje", "-birzuose",
     "-gargzduose", "-kupiskyje", "-elektrenuse", "-jurbarke", "-garliavoje",
     "-vilkaviskyje", "-raseinuose", "-anyksciuose", "-lentvaryje", "-grigiskese",
     "-prienuose", "-joniskyje", "-kelmeje", "-varenoje", "-kaisiadoruose",
     "-pasvalyje", "-kursenuose", "-moletuose", "-naujoje-akmene", "-sakiuose",
     "-skuode", "-zarasuose", "-sirvintose", "-pakruojyje", "-ignalina"}

\* url_city.capitalize(), on the matched form without its dash
Capitalize(form) ==
    CASE form = "-vilniuje" -> "Vilniuje"
      [] form = "-kaune" -> "Kaune"
      [] form = "-klaipedoje" -> "Klaipedoje"
      [] form = "-siauliuose" -> "Siauliuose"
      [] form = "-panevezyje" -> "Panevezyje"
      [] form = "-alytu" -> "Alytu"
      [] form = "-marijampoleje" -> "Marijampoleje"
      [] form = "-mazeikiuose" -> "Mazeikiuose"
      [] form = "-jonavoje" -> "Jonavoje"
      [] form = "-utenoje" -> "Utenoje"
      [] form = "-kedainiuose" -> "Kedainiuose"
      [] form = "-telsiuose" -> "Telsiuose"
      [] form = "-taurageje" -> "Taurageje"
      [] form = "-ukmerge" -> "Ukmerge"
      [] form = "-visagine" -> "Visagine"
      [] form = "-plungeje" -> "Plungeje"
      [] form = "-kretingoje" -> "Kretingoje"
      [] form = "-palangoje" -> "Palangoje"
      [] form = "-siluteje" -> "Siluteje"
      [] form = "-radviliskyje" -> "Radviliskyje"
      [] form = "-rokiskyje" -> "Rokiskyje"
      [] form = "-birzuose" -> "Birzuose"
      [] form = "-gargzduose" -> "Gargzduose"
      [] form = "-kupiskyje" -> "Kupiskyje"
      [] form = "-elektrenuse" -> "Elektrenuse"
      [] form = "-jurbarke" -> "Jurbarke"
      [] form = "-garliavoje" -> "Garliavoje"
      [] form = "-vilkaviskyje" -> "Vilkaviskyje"
      [] form = "-raseinuose" -> "Raseinuose"
      [] form = "-anyksciuose" -> "Anyksciuose"
      [] form = "-lentvaryje" -> "Lentvaryje"
      [] form = "-grigiskese" -> "Grigiskese"
      [] form = "-prienuose" -> "Prienuose"
      [] form = "-joniskyje" -> "Joniskyje"
      [] form = "-kelmeje" -> "Kelmeje"
      [] form = "-varenoje" -> "Varenoje"
      [] form = "-kaisiadoruose" -> "Kaisiadoruose"
      [] form = "-pasvalyje" -> "Pasvalyje"
      [] form = "-kursenuose" -> "Kursenuose"
      [] form = "-moletuose" -> "Moletuose"
      [] form = "-naujoje-akmene" -> "Naujoje-akmene"
      [] form = "-sakiuose" -> "Sakiuose"
      [] form = "-skuode" -> "Skuode"
      [] form = "-zarasuose" -> "Zarasuose"
      [] form = "-sirvintose" -> "Sirvintose"
      [] form = "-pakruojyje" -> "Pakruojyje"
      [] form = "-ignalina" -> "Ignalina"
      [] OTHER -> form

\* city_map.get(url_city, url_city.capitalize()), on the matched form
CityOfForm(form) ==
    CASE form = "-vilniuje" -> "Vilnius"
      [] form = "-kaune" -> "Kaunas"
      [] form = "-klaipedoje" -> "Klaipeda"
      [] form = "-siauliuose" -> "Siauliai"
      [] form = "-panevezyje" -> "Panevezys"
      [] form = "-marijampoleje" -> "Marijampole"
      [] form = "-telsiuose" -> "Telsiai"
      [] form = "-rokiskyje" -> "Rokiskis"
      [] form = "-kupiskyje" -> "Kupiskis"
      [] form = "-vilkaviskyje" -> "Vilkaviskis"
      [] form = "-pasvalyje" -> "Pasvalys"
      [] form = "-moletuose" -> "Moletai"
      [] form = "-ignalina" -> "Ignalina"
      [] form = "-plungeje" -> "Plunge"
      [] OTHER -> Capitalize(form)

\* the city found in the page text, else the one named in the url
LocationOf(text, job_url) ==
    LET location == CityInText(text)
        url_city_match == FirstOf(Lower(job_url), UrlCityForms)
    IN  IF Truthy(location) THEN location
        ELSE IF url_city_match # None THEN <<CityOfForm(url_city_match[1])>> ELSE None

\* 'nuotoliniu' in page_text.lower() or 'remote' in page_text.lower()
RemoteWorkOf(text) ==
    LET lowered == Lower(text)
    IN  Contains(lowered, "nuotoliniu") \/ Contains(lowered, "remote")

\* atlygis\s+(\d+[-]\d+\s*(?:EUR|euro sign)) at index i, case-insensitive
SalaryAt(text, i) ==
    /\ LowerSym(text[i]) = "atlygis"
    /\ i + 1 <= Len(text) /\ text[i + 1] \in Whitespace
    /\ LET j == SkipWs(text, i + 1)
           k == SkipWs(text, j + 1)
       IN  /\ j <= Len(text) /\ text[j] = "1500-2000"
           /\ k <= Len(text) /\ text[k] \in {"EUR", "Euro"}

SalaryOfPage(text) ==
    LET at == {i \in 1..Len(text) : SalaryAt(text, i)}
        j == SkipWs(text, Min(at) + 1)
        k == SkipWs(text, j + 1)
    IN  IF at # {} THEN Strip(SubSeq(text, j, k)) ELSE None

MinDescriptionLen == 20
MaxDescriptionLen == 150
SectionHeadings == <<"Darbo aprasymas", "Reikalavimai">>

\* the fragments collected for the two headings, each as its length
RECURSIVE DescriptionsOf(_, _)
DescriptionsOf(sections, headings) ==
    IF headings = <<>> THEN <<>>
    ELSE LET n == sections[Head(headings)]
             kept == IF n > MinDescriptionLen
                     THEN <<IF n > MaxDescriptionLen THEN MaxDescriptionLen ELSE n>>
                     ELSE <<>>
         IN  kept \o DescriptionsOf(sections, Tail(headings))

\* None for a description (a description is a sequence of fragment lengths)
NoDescription == <<-1>>

\* ' | '.join(descriptions), or None
DescriptionOf(sections) ==
    IF DescriptionsOf(sections, SectionHeadings) # <<>>
    THEN DescriptionsOf(sections, SectionHeadings)
    ELSE NoDescription

\* job_data of one detail page
EpsogJobData(job_url, page) ==
    [url         |-> job_url,
     title       |-> TitleOfPage(page.h1s),
     location    |-> LocationOf(page.text, job_url),
     work_type   |-> WorkTypeOf(page.text),
     department  |-> DepartmentOf(page.text),
     salary      |-> SalaryOfPage(page.text),
     remote_work |-> RemoteWorkOf(page.text),
     description |-> DescriptionOf(page.sections)]

\* --------------------------------------------------------------- the runs
VARIABLES
    scraper,      \* which scraper runs: "ignitis" or "epsog"
    listing,      \* the anchors of the listing page, in document order
    pc,           \* "start", "loop" (the detail-page loop of epsog), "done"
    unique_urls,  \* epsog: the candidate urls
    idx,          \* epsog: index in unique_urls of the next candidate
    jobs,         \* epsog: the records appended so far
    result,       \* the returned list
    raised,       \* the scraper ended by raising instead of returning
    trace,        \* the requests and sleeps performed so far, in order
    outcomes,     \* epsog: what happened to each candidate attempted so far
    listing_error,\* the exception of the listing fetch or parse, "none" if none
    link_text,    \* segmenter run: the text nodes of the one anchor
    job_data      \* segmenter run: the job_data built from link_text

vars == <<scraper, listing, pc, unique_urls, idx, jobs, result, raised, trace,
          outcomes, listing_error, link_text, job_data>>

\* ---------------------------------------------------------------- inputs
Scrapers == {"ignitis", "epsog"}

PrefixOf(s) == IF s = "ignitis" THEN IgnitisPrefix ELSE EpsogPrefix
PathSymsOf(s) == IF s = "ignitis" THEN IgnitisPathSyms ELSE EpsogPathSyms
ListingUrlOf(s) ==
    IF s = "ignitis" THEN <<"https://ignitisgrupe.lt/karjera/darbo-skelbimai">>
    ELSE <<"https://careers.smartrecruiters.com/EPSOG">>

\* href attributes of the anchors of a listing page: no href, hrefs of the
\* site with and without surrounding whitespace
HrefPool(s) ==
    {None,
     <<" ", PrefixOf(s), "1">>,
     <<PrefixOf(s), "1">>,
     <<PrefixOf(s), "1", " ">>,
     <<PrefixOf(s), "2">>}
    \cup (IF s = "epsog" THEN {<<PrefixOf(s), "3", "-Vilniuje", "-">>} ELSE {})

\* text nodes of an anchor: tag, title, location, work type and salary; a
\* title alone; a tag alone; no text.  Only ignitis reads the anchor text.
NodesPool(s) ==
    IF s = "ignitis"
    THEN {<<<<"a", " ", "B">>, <<" ", "B">>, <<"B", "1">>,
            <<"Atlyginimas", " ", "1", "Euro">>>>,
          <<<<"B", " ", "a">>>>,
          <<<<"a">>>>,
          <<>>}
    ELSE {<<>>}

\* the text of an anchor is only read when its href passes the filter of
\* find_all, so the other anchors are drawn without text
Anchors(s) ==
    {a \in [href : HrefPool(s), nodes : NodesPool(s)] :
        HrefMatches(a.href, PathSymsOf(s), PrefixOf(s)) \/ a.nodes = <<>>}

Docs(s) == UNION {[1..n -> Anchors(s)] : n \in 0..MaxAnchors}

NoSections == [h \in {"Darbo aprasymas", "Reikalavimai"} |-> -1]

NoPage == [h1s |-> <<>>, text |-> <<>>, sections |-> NoSections]

\* detail pages: a marked title and every field; an unmarked title after an
\* empty h1 and no city in the text; no h1; a marked h1 without text
PagePool ==
    {[h1s |-> <<[job_title |-> TRUE, text |-> <<" ", "B", "a", " ">>]>>,
      text |-> <<"B", "a", "\n", "Visa darbo diena", "\n", "Kaunas", " ", "Vilnius", "\n",
                 "Darbo sritis/Job family:", " ", "Inzinerija", "Bendroves", "\n",
                 "Atlygis", " ", "1500-2000", " ", "EUR", "\n", "Nuotoliniu">>,
      sections |-> [h \in {"Darbo aprasymas", "Reikalavimai"} |->
                        IF h = "Reikalavimai" THEN 20 ELSE 200]],
     [h1s |-> <<[job_title |-> FALSE, text |-> <<" ">>],
                [job_title |-> FALSE, text |-> <<"B">>],
                [job_title |-> FALSE, text |-> <<"a">>]>>,
      text |-> <<"B", "\n", "Part-time", " ", "Full-time", "\n",
                 "Job family:", " ", "IT", "\n", "x">>,
      sections |-> [h \in {"Darbo aprasymas", "Reikalavimai"} |->
                        IF h = "Reikalavimai" THEN 21 ELSE 150]],
     NoPage,
     [h1s |-> <<[job_title |-> TRUE, text |-> <<" ">>],
                [job_title |-> FALSE, text |-> <<"B">>]>>,
      text |-> <<"B", "\n", "Remote">>,
      sections |-> NoSections]}

\* the statements of the item try block in which an exception can arise once
\* the page is fetched: building job_soup, then each field
Fields == {"title", "work_type", "department", "location", "remote_work",
           "salary", "description"}
Stages == {"parse"} \cup Fields

\* what raise_for_status and the parser raise
ListingErrors == {"RequestException", "Exception"}

Request(kind, url) == [kind |-> kind, url |-> url]
Sleep == [kind |-> "sleep", url |-> <<>>]

\* job_data before the segmenter has run
NoJobData ==
    [url |-> None, company_tag |-> None, title |-> None, location |-> None,
     work_type |-> None, salary |-> None]

Init ==
    /\ scraper \in Scrapers
    /\ listing \in Docs(scraper)
    /\ pc = "start"
    /\ unique_urls = <<>>
    /\ idx = 1
    /\ jobs = <<>>
    /\ result = <<>>
    /\ raised = FALSE
    /\ trace = <<>>
    /\ outcomes = <<>>
    /\ listing_error = "none"
    /\ link_text = <<>>
    /\ job_data = NoJobData

\* --------------------------------------------------------------- handlers
\* variant: only requests.RequestException is caught, anything else propagates
OuterHandlerRequestOnly(exc) ==
    IF exc = "RequestException"
    THEN [result |-> <<>>, raised |-> FALSE]
    ELSE [result |-> <<>>, raised |-> TRUE]

\* except requests.RequestException / except Exception of both scrapers:
\* print and return []
OuterHandler(exc) ==
    IF exc = "RequestException"
    THEN [result |-> <<>>, raised |-> FALSE]
    ELSE [result |-> <<>>, raised |-> FALSE]

\* variant: break instead of continue
AfterItemErrorBreak(i) == i + MaxAnchors + 1

\* variant: the failed candidate is tried again
AfterItemErrorRetry(i) == i

\* except Exception ... continue, inside the loop of epsog: the index of the
\* candidate the loop goes on with after candidate i failed
AfterItemError(i) == i + 1

\* time.sleep(0.5), the last statement of the item try block
PacingDelay == <<Sleep>>

\* ---------------------------------------------------------------- ignitis
\* requests.get or raise_for_status raises, or parsing raises
IgnitisListingFails ==
    /\ scraper = "ignitis" /\ pc = "start"
    /\ \E exc \in ListingErrors :
          /\ listing_error' = exc
          /\ result' = OuterHandler(exc).result
          /\ raised' = OuterHandler(exc).raised
    /\ trace' = Append(trace, Request("listing", ListingUrlOf(scraper)))
    /\ pc' = "done"
    /\ UNCHANGED <<scraper, listing, unique_urls, idx, jobs, outcomes, link_text, job_data>>

\* the listing page is fetched and parsed: the whole of ignitis_scraper
IgnitisScrape ==
    /\ scraper = "ignitis" /\ pc = "start"
    /\ trace' = Append(trace, Request("listing", ListingUrlOf(scraper)))
    /\ result' = UniqueJobs(IgnitisJobs(FindJobLinks(listing, IgnitisPathSyms, IgnitisPrefix)))
    /\ raised' = FALSE
    /\ pc' = "done"
    /\ UNCHANGED <<scraper, listing, unique_urls, idx, jobs, outcomes, link_text, job_data, listing_error>>

\* ------------------------------------------------------------------ epsog
EpsogListingFails ==
    /\ scraper = "epsog" /\ pc = "start"
    /\ \E exc \in ListingErrors :
          /\ listing_error' = exc
          /\ result' = OuterHandler(exc).result
          /\ raised' = OuterHandler(exc).raised
    /\ trace' = Append(trace, Request("listing", ListingUrlOf(scraper)))
    /\ pc' = "done"
    /\ UNCHANGED <<scraper, listing, unique_urls, idx, jobs, outcomes, link_text, job_data>>

\* the listing page is fetched and parsed, the candidate urls collected
EpsogDiscover ==
    /\ scraper = "epsog" /\ pc = "start"
    /\ trace' = Append(trace, Request("listing", ListingUrlOf(scraper)))
    /\ unique_urls' = UniqueUrls(FindJobLinks(listing, EpsogPathSyms, EpsogPrefix))
    /\ idx' = 1
    /\ jobs' = <<>>
    /\ pc' = "loop"
    /\ UNCHANGED <<scraper, listing, result, raised, outcomes, link_text, job_data, listing_error>>

\* one iteration: requests.get or raise_for_status of the detail page raises
ItemFetchFails ==
    /\ pc = "loop" /\ idx <= Len(unique_urls)
    /\ trace' = Append(trace, Request("detail", unique_urls[idx]))
    /\ outcomes' = Append(outcomes, [kind |-> "fetch_failed", page |-> NoPage])
    /\ idx' = AfterItemError(idx)
    /\ UNCHANGED <<scraper, listing, pc, unique_urls, jobs, result, raised, link_text, job_data, listing_error>>

\* one iteration: the page is fetched, then building job_soup or resolving a
\* field raises; nothing is appended and the sleep is not reached
ItemExtractionRaises ==
    /\ pc = "loop" /\ idx <= Len(unique_urls)
    /\ trace' = Append(trace, Request("detail", unique_urls[idx]))
    /\ \E stage \in Stages :
          outcomes' = Append(outcomes,
                             [kind |-> IF stage = "parse" THEN "parse_raised" ELSE "field_raised",
                              page |-> NoPage])
    /\ idx' = AfterItemError(idx)
    /\ UNCHANGED <<scraper, listing, pc, unique_urls, jobs, result, raised, link_text, job_data, listing_error>>

\* one iteration without exception: fetch, extract, append, sleep
ItemExtracted ==
    /\ pc = "loop" /\ idx <= Len(unique_urls)
    /\ \E page \in PagePool :
          /\ jobs' = Append(jobs, EpsogJobData(unique_urls[idx], page))
          /\ outcomes' = Append(outcomes, [kind |-> "ok", page |-> page])
    /\ trace' = Append(trace, Request("detail", unique_urls[idx])) \o PacingDelay
    /\ idx' = idx + 1
    /\ UNCHANGED <<scraper, listing, pc, unique_urls, result, raised, link_text, job_data, listing_error>>

\* the loop is over: return jobs
EpsogReturn ==
    /\ pc = "loop" /\ idx > Len(unique_urls)
    /\ result' = jobs
    /\ raised' = FALSE
    /\ pc' = "done"
    /\ UNCHANGED <<scraper, listing, unique_urls, idx, jobs, trace, outcomes, link_text, job_data, listing_error>>

Next ==
    \/ IgnitisListingFails
    \/ IgnitisScrape
    \/ EpsogListingFails
    \/ EpsogDiscover
    \/ ItemFetchFails
    \/ ItemExtractionRaises
    \/ ItemExtracted
    \/ EpsogReturn

Spec == Init /\ [][Next]_vars

\* ------------------------------------------------------- the segmenter alone
\* One anchor of the ignitis listing page with arbitrary text: one text node
\* of up to MaxLen symbols, or two short text nodes.
SegAlphabet == {"a", "B", "1", " ", "|"}

Strings(n) == UNION {[1..k -> SegAlphabet] : k \in 0..n}

SegInputs ==
    {<<s>> : s \in Strings(MaxLen)} \cup {<<s, t>> : s \in Strings(2), t \in Strings(2)}

InitSeg ==
    /\ scraper = "ignitis"
    /\ listing = <<>>
    /\ pc = "segment"
    /\ unique_urls = <<>>
    /\ idx = 1
    /\ jobs = <<>>
    /\ result = <<>>
    /\ raised = FALSE
    /\ trace = <<>>
    /\ outcomes = <<>>
    /\ listing_error = "none"
    /\ link_text \in SegInputs
    /\ job_data = NoJobData

\* the body of the link loop of ignitis_scraper, for the one anchor
Segment ==
    /\ pc = "segment"
    /\ job_data' = IgnitisJobData([href |-> <<IgnitisPrefix, "1">>, nodes |-> link_text])
    /\ result' = IF IgnitisAccepted(job_data') THEN <<job_data'>> ELSE <<>>
    /\ pc' = "segmented"
    /\ UNCHANGED <<scraper, listing, unique_urls, idx, jobs, raised, trace, outcomes,
                   listing_error, link_text>>

NextSeg == Segment

SpecSeg == InitSeg /\ [][NextSeg]_vars

\* ============================================================== properties
\* Reference notions the properties are stated with.

\* the elements of seq at the indices in S, from index i on, in order
RECURSIVE PickFrom(_, _, _)
PickFrom(seq, S, i) ==
    IF i > Len(seq) THEN <<>>
    ELSE (IF i \in S THEN <<seq[i]>> ELSE <<>>) \o PickFrom(seq, S, i + 1)

\* seq with, for each key, only the first element that has it
FirstByKey(seq, Key(_)) ==
    LET keys == [i \in 1..Len(seq) |-> Key(seq[i])]
    IN  PickFrom(seq, {i \in 1..Len(seq) : \A j \in 1..(i - 1) : keys[j] # keys[i]}, 1)

UrlOfRecord(r) == r.url
Same(u) == u

\* the anchors of the listing page the running scraper looks at
MatchingLinks == FindJobLinks(listing, PathSymsOf(scraper), PrefixOf(scraper))

\* epsog: the distinct urls of the matching anchors, in document order
Candidates ==
    LET links == MatchingLinks
    IN  FirstByKey([k \in 1..Len(links) |-> Strip(links[k].href)], Same)

\* epsog: the urls of the detail requests made so far, in order
DetailFetches ==
    LET reqs == SelectSeq(trace, LAMBDA e : e.kind = "detail")
    IN  [k \in 1..Len(reqs) |-> reqs[k].url]

SleepCount == Len(SelectSeq(trace, LAMBDA e : e.kind = "sleep"))

\* a run of the named scraper has returned after a listing fetch that worked
Finished(s) == scraper = s /\ pc = "done" /\ listing_error = "none"

\* the position of a url among the candidates
PositionOf(cands, u) == CHOOSE i \in 1..Len(cands) : cands[i] = u

\* C1: every record of a returned collection has a non-empty title and a
\* non-empty url (a candidate whose title is absent or empty is not returned).
C1_RecordsHaveTitleAndUrl ==
    \A i \in 1..Len(result) : Truthy(result[i].title) /\ Truthy(result[i].url)

\* C2: a returned collection holds no two records with the same url, also
\* when anchors repeat an href or differ in it only by surrounding whitespace.
C2_NoTwoRecordsShareUrl ==
    \A i, j \in 1..Len(result) : i # j => result[i].url # result[j].url

C2_Witness ==
    /\ pc = "done" /\ Len(result) >= 2
    /\ \E i, j \in 1..Len(listing) :
          /\ i < j
          /\ HrefMatches(listing[i].href, PathSymsOf(scraper), PrefixOf(scraper))
          /\ HrefMatches(listing[j].href, PathSymsOf(scraper), PrefixOf(scraper))
          /\ listing[i].href # listing[j].href
          /\ Strip(listing[i].href) = Strip(listing[j].href)
          /\ \E k \in 1..Len(result) : result[k].url = Strip(listing[i].href)

\* epsog: the records of the candidates whose iteration raised nothing, in
\* candidate order
RecordsOfOkItems ==
    LET cands == Candidates
        ok == PickFrom([i \in 1..Len(outcomes) |-> i],
                       {i \in 1..Len(outcomes) : outcomes[i].kind = "ok"}, 1)
    IN  [k \in 1..Len(ok) |-> EpsogJobData(cands[ok[k]], outcomes[ok[k]].page)]

\* C3: in epsog_scraper a candidate whose fetch or extraction raises is the
\* only one skipped: the run returns without raising, every candidate is
\* attempted, and the result is the records of all the others in order.
C3_FailingItemAloneSkipped ==
    Finished("epsog") =>
        LET cands == Candidates IN
        /\ ~raised
        /\ Len(outcomes) = Len(cands)
        /\ DetailFetches = cands
        /\ result = RecordsOfOkItems

C3_Witness ==
    /\ Finished("epsog")
    /\ Len(Candidates) = 3
    /\ outcomes[1].kind = "ok"
    /\ outcomes[2].kind \in {"fetch_failed", "parse_raised", "field_raised"}
    /\ outcomes[3].kind = "ok"
    /\ Len(result) = 2

\* C4: in epsog_scraper an exception raised while one field of an item is
\* resolved leaves that field absent and the record of the item is emitted.
C4_FieldFailureKeepsRecord ==
    Finished("epsog") =>
        LET cands == Candidates IN
        \A i \in 1..Len(outcomes) :
            outcomes[i].kind = "field_raised" =>
                \E k \in 1..Len(result) : result[k].url = cands[i]

\* C5: when the listing fetch fails or parsing the listing page raises, the
\* scraper returns an empty collection, does not raise, and fetches no
\* detail page.
C5_ListingFailureGivesEmpty ==
    (pc = "done" /\ listing_error # "none") =>
        /\ result = <<>>
        /\ ~raised
        /\ DetailFetches = <<>>

C5_Witness ==
    /\ pc = "done" /\ scraper = "epsog" /\ listing_error = "Exception"
    /\ Len(MatchingLinks) >= 2
    /\ result = <<>>

\* C6: in epsog_scraper exactly one pacing delay lies between any two
\* successive detail-page fetches, whatever became of the earlier item.
C6_OneDelayBetweenFetches ==
    \A i, j \in 1..Len(trace) :
        ( /\ i < j
          /\ trace[i].kind = "detail" /\ trace[j].kind = "detail"
          /\ \A k \in (i + 1)..(j - 1) : trace[k].kind # "detail" )
        => Cardinality({k \in (i + 1)..(j - 1) : trace[k].kind = "sleep"}) = 1

\* C7: in epsog_scraper no pacing delay precedes the first detail-page fetch
\* or follows the last one; a run with n >= 1 candidates has n - 1 delays.
C7_DelaysOnlyBetweenFetches ==
    (Finished("epsog") /\ Len(Candidates) >= 1) =>
        /\ SleepCount = Len(Candidates) - 1
        /\ trace[Len(trace)].kind # "sleep"
        /\ \A k \in 1..Len(trace) :
              trace[k].kind = "sleep" => \E i \in 1..(k - 1) : trace[i].kind = "detail"

\* ignitis: the accepted job_data of the matching anchors, in document order
AcceptedIgnitis ==
    LET links == MatchingLinks
    IN  SelectSeq([k \in 1..Len(links) |-> IgnitisJobData(links[k])],
                  LAMBDA job : Truthy(job.title) /\ Truthy(job.url))

\* epsog: for each matching anchor whose url was extracted, the record of
\* that url, in document order
AcceptedEpsog ==
    LET links == MatchingLinks
        cands == Candidates
        urls == [k \in 1..Len(links) |-> Strip(links[k].href)]
        got == SelectSeq(urls, LAMBDA u : outcomes[PositionOf(cands, u)].kind = "ok")
    IN  [k \in 1..Len(got) |-> EpsogJobData(got[k], outcomes[PositionOf(cands, got[k])].page)]

C10_EachCandidateFetchedOnce ==
    scraper = "epsog" =>
        LET cands == Candidates
            fetched == DetailFetches
        IN  /\ Len(SelectSeq(trace, LAMBDA e : e.kind = "listing"))
                   = (IF pc = "start" THEN 0 ELSE 1)
            /\ pc # "start" => trace[1].kind = "listing"
            /\ Len(fetched) <= Len(cands)
            /\ fetched = SubSeq(cands, 1, Len(fetched))
            /\ pc = "loop" => Len(fetched) = idx - 1
            /\ Finished("epsog") => fetched = cands
            /\ pc # "done" => ENABLED Next

C10_Witness ==
    /\ Finished("epsog")
    /\ Len(Candidates) = 2
    /\ Len(MatchingLinks) > Len(Candidates)
    /\ outcomes[1].kind = "fetch_failed"
    /\ outcomes[2].kind = "ok"

\* the first whitespace-delimited token of a stripped segment
FirstToken(s) ==
    IF \E i \in 1..Len(s) : s[i] \in Whitespace
    THEN LET k == CHOOSE i \in 1..Len(s) :
                      s[i] \in Whitespace /\ \A j \in 1..(i - 1) : s[j] \notin Whitespace
         IN  SubSeq(s, 1, k - 1)
    ELSE s

\* a token with a lowercase letter and no uppercase one
AllLowercase(tok) ==
    /\ \E i \in 1..Len(tok) : tok[i] \in LowerChars
    /\ \A i \in 1..Len(tok) : tok[i] \notin UpperChars

\* t is the tokens of s after the first one, joined by single spaces
IsRestOf(t, s) ==
    /\ SplitWords(t) = Tail(SplitWords(s))
    /\ Strip(t) = t
    /\ \A i \in 1..Len(t) :
          t[i] \in Whitespace => t[i] = " " /\ t[i + 1] \notin Whitespace

\* the positional rule of the segmenter on the first segment
SegmenterRule ==
    LET parts == PartsOf(link_text) IN
    parts # <<>> =>
        LET tok == FirstToken(parts[1]) IN
        IF AllLowercase(tok) /\ StrLen(tok) <= 4
        THEN job_data.company_tag = tok /\ IsRestOf(job_data.title, parts[1])
        ELSE job_data.company_tag = None /\ job_data.title = parts[1]

\* C8 (as amended): for a non-empty list of segments, a first token of the
\* first segment that is all-lowercase and at most 4 characters is the tag
\* and the title is the remaining tokens joined by single spaces; otherwise
\* the tag is absent and the title is the whole first segment.  The tag of an
\* emitted record is lowercase and at most 4 characters.
C8_TagIsFirstShortLowercaseToken ==
    pc = "segmented" =>
        /\ SegmenterRule
        /\ \A i \in 1..Len(result) :
              result[i].company_tag # None =>
                  /\ AllLowercase(result[i].company_tag)
                  /\ StrLen(result[i].company_tag) <= 4

\* the tag was cut off a title that starts with the same token again
C8_Witness ==
    /\ pc = "segmented"
    /\ result # <<>>
    /\ result[1].company_tag # None
    /\ FirstToken(result[1].title) = result[1].company_tag
    /\ Len(PartsOf(link_text)) >= 2

\* C8 (as claimed): as above, and the tag of an emitted record is not the
\* first token of the emitted title.
C8_TagNotPrefixOfTitle ==
    pc = "segmented" =>
        /\ SegmenterRule
        /\ \A i \in 1..Len(result) :
              result[i].company_tag # None =>
                  /\ AllLowercase(result[i].company_tag)
                  /\ StrLen(result[i].company_tag) <= 4
                  /\ FirstToken(result[i].title) # result[i].company_tag

====
